---- MODULE Spec2Model ----
(***************************************************************************)
(* A model of the arena allocator of arena.h (the chunked version with     *)
(* AR_FIXED and AR_DYNAMIC arenas): arinit, aralloc, arreset, arfree,      *)
(* chunk_init and chunk_destroy, over size_t arithmetic of SIZE_BITS bits. *)
(***************************************************************************)
EXTENDS Integers, Sequences, FiniteSets, TLC

\* ------------------------------------------------------------------ bounds

\* Width of size_t in the model (64 on the real targets).
SIZE_BITS == 20
\* Number of API calls made by the caller in one run.
MaxOps == 5
\* Number of chunks the operating system is able to provide in one run.
MaxChunks == 3

\* --------------------------------------------------------------- constants

PAGE_SIZE == 4096
AR_ALIGN == 16
AR_FIXED == 0
AR_DYNAMIC == 1
NULL == 0

SIZE_MOD == 2 ^ SIZE_BITS
SIZE_MAX == SIZE_MOD - 1

\* An ArenaType value outside the enumeration.
AR_INVALID == AR_DYNAMIC + 1
ArenaTypes == {AR_FIXED, AR_DYNAMIC, AR_INVALID}

\* The sizes the caller asks for.
Sizes == {0, 1, PAGE_SIZE, 5000, 10000, 15 * PAGE_SIZE,
          SIZE_MAX - 15, SIZE_MAX}

\* What the operating system answers to the calls of one operation.
OsOutcomes == {"ok", "malloc_fails", "mmap_fails"}
InitOutcomes == OsOutcomes \cup {"arena_malloc_fails"}

VARIABLES
    handle,   \* the struct Arena object: "none", "live" or "freed"
    Arena,    \* the fields of struct Arena: type, head, curr
    chunks,   \* the struct Chunk objects ever created, by creation order
    descs,    \* the chunk descriptors that are malloc-ed and not freed
    maps,     \* the chunks whose mapping is mmap-ed and not munmap-ed
    vmnext,   \* the next address mmap hands out
    written,  \* the addresses that hold the caller's pattern
    issued,   \* the allocations handed out since the last reset, in order
    lastOp,   \* the last call made
    lastArg,  \* its argument (type or size)
    ret,      \* its return value
    log,      \* the allocator and OS calls the last operation made
    ops       \* the number of calls made

vars == <<handle, Arena, chunks, descs, maps, vmnext, written, issued,
          lastOp, lastArg, ret, log, ops>>

\* ----------------------------------------------------------------- helpers

\* size_t arithmetic
Wrap(n) == n % SIZE_MOD

Ev(call, obj) == [call |-> call, obj |-> obj]

\* Variant: no rounding at all.
AR_ALIGN_UP_none(n) == Wrap(n)

\* Variant: rounding with a floor of one alignment unit.
AR_ALIGN_UP_floor(n) ==
    LET s == Wrap(n + AR_ALIGN - 1)
    IN  IF n = 0 THEN AR_ALIGN ELSE s - (s % AR_ALIGN)

\* (n + AR_ALIGN - 1) & ~(AR_ALIGN - 1) on size_t: the and with ~15 clears
\* the low four bits of the wrapped sum.
AR_ALIGN_UP(n) ==
    LET s == Wrap(n + AR_ALIGN - 1)
    IN  s - (s % AR_ALIGN)

\* mmap maps whole pages, at a page-aligned address.
PagesOf(size) == ((size + PAGE_SIZE - 1) \div PAGE_SIZE) * PAGE_SIZE

\* The chunks reached from chunk c by next links, in order.
RECURSIVE ChainFrom(_, _)
ChainFrom(chs, c) ==
    IF c = NULL THEN <<>> ELSE <<c>> \o ChainFrom(chs, chs[c].next)

SeqToSet(s) == {s[i] : i \in 1..Len(s)}

\* The arena pointer the caller holds.
arena == IF handle = "none" THEN NULL ELSE 1

\* ------------------------------------------------------------ chunk_init

\* The struct Chunk chunk_init fills in.
NewChunk(mem, size) ==
    [memory |-> mem, capacity |-> size, offset |-> 0, next |-> NULL]

\* Variant: the descriptor is not freed when mmap fails.
chunk_init_leak(type, size, os, id) ==
    IF type # AR_FIXED /\ type # AR_DYNAMIC
    THEN [ok |-> FALSE, log |-> <<>>]
    ELSE IF os = "malloc_fails"
    THEN [ok |-> FALSE, log |-> <<Ev("malloc_failed", id)>>]
    ELSE IF os = "mmap_fails" \/ size = 0
    THEN [ok |-> FALSE,
          log |-> <<Ev("malloc_chunk", id), Ev("mmap_failed", id)>>]
    ELSE [ok |-> TRUE,
          chunk |-> NewChunk(vmnext, size),
          log |-> <<Ev("malloc_chunk", id), Ev("mmap", id)>>]

\* chunk_init(type, size) under the answer os of malloc and mmap: the new
\* chunk (or none) and the calls made. id is the new descriptor.
chunk_init(type, size, os, id) ==
    IF type # AR_FIXED /\ type # AR_DYNAMIC
    THEN [ok |-> FALSE, log |-> <<>>]
    ELSE IF os = "malloc_fails"
    THEN [ok |-> FALSE, log |-> <<Ev("malloc_failed", id)>>]
    ELSE IF os = "mmap_fails" \/ size = 0
    THEN [ok |-> FALSE,
          log |-> <<Ev("malloc_chunk", id), Ev("mmap_failed", id),
                    Ev("free_chunk", id)>>]
    ELSE [ok |-> TRUE,
          chunk |-> NewChunk(vmnext, size),
          log |-> <<Ev("malloc_chunk", id), Ev("mmap", id)>>]

\* --------------------------------------------------------- chunk_destroy

\* munmap on a chunk; it fails (returns -1) on the chunks of bad.
munmap(chunk, bad) ==
    IF chunk \in bad THEN Ev("munmap_failed", chunk) ELSE Ev("munmap", chunk)

\* Variant: only the chunk passed in is released, the walk is missing.
chunk_destroy_once(chs, chunk, bad) ==
    IF chunk = NULL THEN <<>>
    ELSE <<munmap(chunk, bad), Ev("free_chunk", chunk)>>

\* The calls of chunk_destroy(chunk); the result of munmap is not looked at.
RECURSIVE chunk_destroy(_, _, _)
chunk_destroy(chs, chunk, bad) ==
    IF chunk = NULL THEN <<>>
    ELSE LET next == chs[chunk].next
         IN  <<munmap(chunk, bad), Ev("free_chunk", chunk)>>
                 \o chunk_destroy(chs, next, bad)

\* The objects the calls named call of l were made on.
Objs(l, call) == {l[i].obj : i \in {j \in 1..Len(l) : l[j].call = call}}

\* The live objects of a kind after the calls of l: acq acquires, rel releases.
HeapAfter(live, l, acq, rel) == (live \cup Objs(l, acq)) \ Objs(l, rel)

\* The address mmap hands out next, after the mappings of l.
VmAfter(chs, l) ==
    IF Objs(l, "mmap") = {} THEN vmnext
    ELSE vmnext + PagesOf(chs[Len(chs)].capacity)

\* ---------------------------------------------------------------- arinit

\* Variant: the two initial sizes swapped.
InitSize_swapped(type) == IF type = AR_FIXED THEN PAGE_SIZE ELSE PAGE_SIZE * 16

\* size_t init_size = (type == AR_FIXED) ? PAGE_SIZE * 16 : PAGE_SIZE
InitSize(type) == IF type = AR_FIXED THEN PAGE_SIZE * 16 ELSE PAGE_SIZE

arinit(type, os) ==
    /\ handle = "none"
    /\ ops < MaxOps
    /\ ops' = ops + 1
    /\ lastOp' = "arinit"
    /\ lastArg' = type
    /\ UNCHANGED <<written, issued>>
    /\ IF type # AR_FIXED /\ type # AR_DYNAMIC
       THEN /\ ret' = NULL
            /\ log' = <<>>
            /\ UNCHANGED <<handle, Arena, chunks>>
       ELSE IF os = "arena_malloc_fails"
       THEN /\ ret' = NULL
            /\ log' = <<Ev("malloc_failed", 0)>>
            /\ UNCHANGED <<handle, Arena, chunks>>
       ELSE LET id == Len(chunks) + 1
                r == chunk_init(type, InitSize(type), os, id)
            IN  IF ~r.ok
                THEN /\ ret' = NULL
                     /\ log' = <<Ev("malloc_arena", 0)>> \o r.log
                                   \o <<Ev("free_arena", 0)>>
                     /\ UNCHANGED <<handle, Arena, chunks>>
                ELSE /\ ret' = 1
                     /\ log' = <<Ev("malloc_arena", 0)>> \o r.log
                     /\ handle' = "live"
                     /\ Arena' = [type |-> type, head |-> id, curr |-> id]
                     /\ chunks' = Append(chunks, r.chunk)
    /\ descs' = HeapAfter(descs, log', "malloc_chunk", "free_chunk")
    /\ maps' = HeapAfter(maps, log', "mmap", "munmap")
    /\ vmnext' = VmAfter(chunks', log')

\* ---------------------------------------------------------------- arfree

\* arfree returns nothing (void): ret holds NULL after it.
arfree(bad) ==
    /\ handle = "live"
    /\ ops < MaxOps
    /\ ops' = ops + 1
    /\ lastOp' = "arfree"
    /\ lastArg' = 0
    /\ ret' = NULL
    /\ log' = chunk_destroy(chunks, Arena.head, bad) \o <<Ev("free_arena", 0)>>
    /\ descs' = HeapAfter(descs, log', "malloc_chunk", "free_chunk")
    /\ maps' = HeapAfter(maps, log', "mmap", "munmap")
    /\ written' = {a \in written :
                     \E c \in maps' : /\ a >= chunks[c].memory
                                      /\ a < chunks[c].memory
                                              + PagesOf(chunks[c].capacity)}
    /\ issued' = <<>>
    /\ handle' = "freed"
    /\ UNCHANGED <<Arena, chunks, vmnext>>

\* --------------------------------------------------------------- aralloc

\* arena->curr->offset + size <= arena->curr->capacity, on size_t
Fits(c, size) == Wrap(c.offset + size) <= c.capacity

\* arena->curr->offset += size
Bump(c, size) == [c EXCEPT !.offset = Wrap(c.offset + size)]

\* Variant: plain doubling, the request is not looked at.
NextSize_double(capacity, size) == Wrap(capacity * 2)

\* Variant: the request rounded up to whole pages.
NextSize_paged(capacity, size) ==
    LET next_size == Wrap(capacity * 2)
    IN  IF next_size < size THEN PagesOf(size) ELSE next_size

\* The size of the chunk a growth asks for.
NextSize(capacity, size) ==
    LET next_size == Wrap(capacity * 2)
    IN  IF next_size < size THEN AR_ALIGN_UP(size) ELSE next_size

\* Variant: growth by moving the current chunk into the new mapping.
Link_moving(chs, curr, id, new_chunk) ==
    [Append(chs, new_chunk) EXCEPT ![curr].next = id,
                                   ![curr].memory = new_chunk.memory]

\* Variant: the new chunk is not linked to the current one.
Link_unlinked(chs, curr, id, new_chunk) == Append(chs, new_chunk)

\* arena->curr->next = new_chunk
Link(chs, curr, id, new_chunk) ==
    [Append(chs, new_chunk) EXCEPT ![curr].next = id]

\* Variant: every arena gives up.
OnFull_null(type) == "null"

\* Variant: every arena grows.
OnFull_grow(type) == "grow"

\* Not enough space in the chunk: a fixed arena returns NULL, a dynamic one
\* grows, and any other type falls through to the final return NULL.
OnFull(type) ==
    IF type = AR_FIXED THEN "null"
    ELSE IF type = AR_DYNAMIC THEN "grow"
    ELSE "null"

aralloc(size, os) ==
    /\ handle # "freed"
    /\ ops < MaxOps
    /\ ops' = ops + 1
    /\ lastOp' = "aralloc"
    /\ lastArg' = size
    /\ UNCHANGED <<handle, written>>
    /\ IF arena = NULL
       THEN /\ ret' = NULL
            /\ log' = <<>>
            /\ UNCHANGED <<Arena, chunks>>
       ELSE LET sz == AR_ALIGN_UP(size)
                c  == chunks[Arena.curr]
            IN  IF Fits(c, sz)
                THEN /\ ret' = c.memory + c.offset
                     /\ chunks' = [chunks EXCEPT ![Arena.curr] = Bump(c, sz)]
                     /\ log' = <<>>
                     /\ UNCHANGED Arena
                ELSE IF OnFull(Arena.type) = "grow"
                THEN LET id == Len(chunks) + 1
                         r  == chunk_init(AR_DYNAMIC,
                                          NextSize(c.capacity, sz), os, id)
                     IN  IF ~r.ok
                         THEN /\ ret' = NULL
                              /\ log' = r.log
                              /\ UNCHANGED <<Arena, chunks>>
                         ELSE /\ Len(chunks) < MaxChunks
                              /\ chunks' = [Link(chunks, Arena.curr, id, r.chunk)
                                               EXCEPT ![id] = Bump(r.chunk, sz)]
                              /\ Arena' = [Arena EXCEPT !.curr = id]
                              /\ ret' = r.chunk.memory + r.chunk.offset
                              /\ log' = r.log
                ELSE /\ ret' = NULL
                     /\ log' = <<>>
                     /\ UNCHANGED <<Arena, chunks>>
    /\ descs' = HeapAfter(descs, log', "malloc_chunk", "free_chunk")
    /\ maps' = HeapAfter(maps, log', "mmap", "munmap")
    /\ vmnext' = VmAfter(chunks', log')
    /\ issued' = IF ret' = NULL THEN issued
                 ELSE Append(issued, [ptr |-> ret', size |-> size])

\* --------------------------------------------------------------- arreset

\* Variant: only the head chunk is rewound.
ResetChain_headonly(chs, head) == [chs EXCEPT ![head].offset = 0]

\* The walk of arreset over the chain: every chunk reached gets offset 0.
ResetChain(chs, head) ==
    [i \in 1..Len(chs) |->
        IF i \in SeqToSet(ChainFrom(chs, head))
        THEN [chs[i] EXCEPT !.offset = 0]
        ELSE chs[i]]

arreset ==
    /\ handle # "freed"
    /\ ops < MaxOps
    /\ ops' = ops + 1
    /\ lastOp' = "arreset"
    /\ lastArg' = 0
    /\ ret' = NULL
    /\ log' = <<>>
    /\ UNCHANGED <<handle, descs, maps, vmnext, written>>
    /\ issued' = <<>>
    /\ IF arena = NULL
       THEN UNCHANGED <<Arena, chunks>>
       ELSE IF Arena.type = AR_FIXED
       THEN /\ chunks' = [chunks EXCEPT ![Arena.head].offset = 0]
            /\ UNCHANGED Arena
       ELSE IF Arena.type = AR_DYNAMIC
       THEN /\ chunks' = ResetChain(chunks, Arena.head)
            /\ Arena' = [Arena EXCEPT !.curr = Arena.head]
       ELSE UNCHANGED <<Arena, chunks>>

\* ---------------------------------------------------------------- caller

\* The caller writes its pattern into the allocation it just received.
Write ==
    /\ handle = "live"
    /\ lastOp = "aralloc"
    /\ ret # NULL
    /\ lastArg > 0
    /\ ret \notin written
    /\ written' = written \cup {ret}
    /\ UNCHANGED <<handle, Arena, chunks, descs, maps, vmnext, issued,
                   lastOp, lastArg, ret, log, ops>>

\* ------------------------------------------------------------------ system

Init ==
    /\ handle = "none"
    /\ Arena = [type |-> AR_FIXED, head |-> NULL, curr |-> NULL]
    /\ chunks = <<>>
    /\ descs = {}
    /\ maps = {}
    /\ vmnext = PAGE_SIZE * 16
    /\ written = {}
    /\ issued = <<>>
    /\ lastOp = "none"
    /\ lastArg = 0
    /\ ret = NULL
    /\ log = <<>>
    /\ ops = 0

Next ==
    \/ \E type \in ArenaTypes, os \in InitOutcomes : arinit(type, os)
    \/ \E size \in Sizes, os \in OsOutcomes : aralloc(size, os)
    \/ arreset
    \/ \E bad \in SUBSET SeqToSet(ChainFrom(chunks, Arena.head)) : arfree(bad)
    \/ Write

Spec == Init /\ [][Next]_vars

\* ------------------------------------------------------------------ claims

\* A step that is a call of aralloc, and one on a live arena.
AllocStep == lastOp' = "aralloc" /\ ops' = ops + 1
LiveAlloc == AllocStep /\ handle = "live"
FreeStep == lastOp' = "arfree" /\ ops' = ops + 1

\* The chain of the arena, from head.
Chain == ChainFrom(chunks, Arena.head)

\* Whether one of the calls of l was declined by malloc or mmap.
OsDeclined(l) == Objs(l, "malloc_failed") \cup Objs(l, "mmap_failed") # {}

\* Whether the last operation created a region.
Grew == lastOp = "aralloc" /\ Objs(log, "mmap") # {}

\* C1 (as claimed): in a Dynamic arena whose chain has more than one region,
\* an aralloc whose aligned size fits into the room of a region of the chain
\* at or after curr (after arreset: any region, all of them empty) creates no
\* region.
C1_ResetReusesRegions ==
    [][(/\ LiveAlloc
        /\ Arena.type = AR_DYNAMIC
        /\ Len(Chain) > 1
        /\ lastArg' <= SIZE_MAX - (AR_ALIGN - 1)
        /\ \E c \in SeqToSet(ChainFrom(chunks, Arena.curr)) :
              chunks[c].offset + AR_ALIGN_UP(lastArg') <= chunks[c].capacity)
       => Len(chunks') = Len(chunks)]_vars

\* C2: an aralloc that grows a Dynamic arena leaves the base address, the
\* capacity, the offset, the mapping and the written bytes of every region
\* that existed before the call as they were.
C2_GrowthPreservesData ==
    [][(LiveAlloc /\ Len(chunks') > Len(chunks))
       => /\ \A i \in 1..Len(chunks) :
                /\ chunks'[i].memory = chunks[i].memory
                /\ chunks'[i].capacity = chunks[i].capacity
                /\ chunks'[i].offset = chunks[i].offset
                /\ (i \in maps => i \in maps')
          /\ written' = written]_vars

\* A growth happened while an allocation of the head region holds data.
C2_Witness ==
    /\ Grew
    /\ handle = "live"
    /\ Len(chunks) >= 2
    /\ \E a \in written : /\ a >= chunks[Arena.head].memory
                          /\ a < chunks[Arena.head].memory
                                  + chunks[Arena.head].capacity

\* C3: every region's base and offset is a multiple of 16 in every state, and
\* every pointer aralloc returns is a multiple of 16.
C3_Alignment ==
    /\ \A i \in 1..Len(chunks) : /\ chunks[i].offset % AR_ALIGN = 0
                                 /\ chunks[i].memory % PAGE_SIZE = 0
    /\ (lastOp = "aralloc" /\ ret # NULL) => ret % AR_ALIGN = 0

\* An allocation of an unaligned size, served after an unaligned one.
C3_Witness ==
    /\ lastOp = "aralloc"
    /\ ret # NULL
    /\ lastArg = 5000
    /\ ret % PAGE_SIZE = AR_ALIGN

\* C4 (as claimed): an aralloc on a Fixed arena fails exactly when
\* offset + aligned size exceeds the capacity.
C4_FixedFailsIffOver ==
    [][(LiveAlloc /\ Arena.type = AR_FIXED)
       => (ret' = NULL <=>
             chunks[Arena.curr].offset + AR_ALIGN_UP(lastArg')
                > chunks[Arena.curr].capacity)]_vars

\* C5 (as claimed): aralloc(a, 0) on a live arena with room succeeds and
\* advances the offset of the current region by 16.
C5_ZeroConsumesFloor ==
    [][(/\ LiveAlloc
        /\ lastArg' = 0
        /\ chunks[Arena.curr].offset + AR_ALIGN <= chunks[Arena.curr].capacity)
       => /\ ret' # NULL
          /\ chunks'[Arena.curr].offset
                = chunks[Arena.curr].offset + AR_ALIGN]_vars

\* C5 (amended): aralloc(a, 0) on a live arena always succeeds, changes no
\* offset and creates no region, and returns base + offset of the current
\* region; the next allocation served from that region returns the same
\* pointer.
C5_ZeroConsumesNothing ==
    [][/\ (LiveAlloc /\ lastArg' = 0)
          => /\ ret' = chunks[Arena.curr].memory + chunks[Arena.curr].offset
             /\ ret' # NULL
             /\ chunks' = chunks
             /\ Arena' = Arena
       /\ (/\ LiveAlloc
           /\ lastOp = "aralloc" /\ lastArg = 0 /\ ret # NULL
           /\ ret' # NULL
           /\ Arena' = Arena)
          => ret' = ret]_vars

\* A zero-size allocation served from a region that is in use.
C5_Witness ==
    /\ lastOp = "aralloc"
    /\ lastArg = 0
    /\ handle = "live"
    /\ chunks[Arena.curr].offset > 0
    /\ ret = chunks[Arena.curr].memory + chunks[Arena.curr].offset

\* C6 (as claimed): an aralloc whose size does not round up within size_t,
\* or whose offset + aligned size wraps, fails and leaves the arena as it
\* was.
C6_OverflowFails ==
    [][(/\ LiveAlloc
        /\ \/ lastArg' > SIZE_MAX - (AR_ALIGN - 1)
           \/ chunks[Arena.curr].offset + AR_ALIGN_UP(lastArg') > SIZE_MAX)
       => /\ ret' = NULL
          /\ UNCHANGED <<Arena, chunks>>]_vars

\* C7: arfree on an arena whose chain has N regions makes, in chain order,
\* one munmap and one free per region and then one free of the handle: 2N + 1
\* calls, no region twice, and every region of the chain is released.
C7_TeardownOncePerRegion ==
    [][FreeStep
       => /\ Len(log') = 2 * Len(Chain) + 1
          /\ \A i \in 1..Len(Chain) :
                /\ log'[2 * i - 1].call \in {"munmap", "munmap_failed"}
                /\ log'[2 * i - 1].obj = Chain[i]
                /\ log'[2 * i] = Ev("free_chunk", Chain[i])
          /\ log'[Len(log')] = Ev("free_arena", 0)
          /\ Cardinality(SeqToSet(Chain)) = Len(Chain)
          /\ maps' = maps \ (SeqToSet(Chain) \ Objs(log', "munmap_failed"))
          /\ descs' = descs \ SeqToSet(Chain)]_vars

\* An arena with a chain of two regions or more was torn down.
C7_Witness ==
    /\ handle = "freed"
    /\ lastOp = "arfree"
    /\ Len(log) >= 5

\* C8 (as claimed): every region ever created is reachable from head while
\* the arena lives, and arfree releases every region that was created.
C8_NoRegionLeaked ==
    /\ handle = "live" => SeqToSet(Chain) = 1..Len(chunks)
    /\ handle = "freed" => /\ descs = {}
                           /\ maps \subseteq Objs(log, "munmap_failed")

\* C9: an aralloc that returns NULL leaves the arena, the chunks, the heap
\* and the mappings exactly as they were before the call.
C9_FailureAtomic ==
    [][(AllocStep /\ ret' = NULL)
       => UNCHANGED <<handle, Arena, chunks, descs, maps, vmnext, written>>]_vars

\* A Dynamic aralloc failed because mmap declined the new region.
C9_Witness ==
    /\ lastOp = "aralloc"
    /\ ret = NULL
    /\ handle = "live"
    /\ Arena.type = AR_DYNAMIC
    /\ Objs(log, "mmap_failed") # {}

\* C10: an aralloc on a Dynamic arena with a size whose rounding does not
\* overflow fails exactly when malloc or mmap declined the new region.
C10_DynamicFailsOnlyOnOs ==
    [][(/\ LiveAlloc
        /\ Arena.type = AR_DYNAMIC
        /\ lastArg' <= SIZE_MAX - (AR_ALIGN - 1))
       => (ret' = NULL <=> OsDeclined(log'))]_vars

\* A Dynamic aralloc larger than twice the current region was served by
\* growth.
C10_Witness ==
    /\ Grew
    /\ ret # NULL
    /\ Arena.type = AR_DYNAMIC
    /\ lastArg = 15 * PAGE_SIZE
    /\ chunks[Arena.curr].capacity = 15 * PAGE_SIZE

\* C11: a successful arinit(AR_FIXED) yields one region of 16 pages (65536
\* bytes), arinit(AR_DYNAMIC) one region of 1 page (4096 bytes); the region
\* has offset 0 and no next region, and curr equals head.
C11_InitialState ==
    (lastOp = "arinit" /\ ret # NULL)
    => /\ handle = "live"
       /\ lastArg \in {AR_FIXED, AR_DYNAMIC}
       /\ Arena.type = lastArg
       /\ Len(chunks) = 1
       /\ Chain = <<Arena.head>>
       /\ Arena.curr = Arena.head
       /\ chunks[Arena.head].capacity
             = (IF lastArg = AR_FIXED THEN 65536 ELSE 4096)
       /\ chunks[Arena.head].offset = 0
       /\ chunks[Arena.head].next = NULL
       /\ descs = {Arena.head}
       /\ maps = {Arena.head}

\* A Fixed arena was just created.
C11_Witness ==
    /\ lastOp = "arinit"
    /\ ret # NULL
    /\ lastArg = AR_FIXED
    /\ chunks[Arena.head].capacity = 16 * PAGE_SIZE

\* C12: when malloc or mmap declines, or the type is neither AR_FIXED nor
\* AR_DYNAMIC, arinit returns NULL; and whenever arinit returns NULL there is
\* no arena, no chunk, no descriptor and no mapping, and everything the call
\* malloc-ed it also freed.
C12_InitFailureClean ==
    /\ (lastOp = "arinit" /\ (OsDeclined(log) \/ lastArg = AR_INVALID))
       => ret = NULL
    /\ (lastOp = "arinit" /\ ret = NULL)
       => /\ handle = "none"
          /\ chunks = <<>>
          /\ descs = {}
          /\ maps = {}
          /\ Objs(log, "mmap") = {}
          /\ Objs(log, "malloc_chunk") = Objs(log, "free_chunk")
          /\ Objs(log, "malloc_arena") = Objs(log, "free_arena")

\* arinit failed because mmap declined the initial region, after the arena
\* and the descriptor were malloc-ed.
C12_Witness ==
    /\ lastOp = "arinit"
    /\ ret = NULL
    /\ Objs(log, "mmap_failed") # {}
    /\ Objs(log, "malloc_arena") # {}

\* C13 (as claimed): arfree returns -1 when a munmap failed and 0 when every
\* release succeeded.
C13_TeardownReportsFailure ==
    lastOp = "arfree"
    => ret = (IF Objs(log, "munmap_failed") # {} THEN -1 ELSE 0)

\* C14 (as claimed): in a Dynamic arena curr is reachable from head and is
\* the last region of the chain.
C14_CurrIsTail ==
    (handle = "live" /\ Arena.type = AR_DYNAMIC)
    => /\ Arena.curr \in SeqToSet(Chain)
       /\ chunks[Arena.curr].next = NULL

\* C14 (amended): in a Dynamic arena curr is reachable from head; it is the
\* last region of the chain, or it is head and every later region of the
\* chain is empty (the state arreset leaves, until the next growth).
C14_CurrReachable ==
    (handle = "live" /\ Arena.type = AR_DYNAMIC)
    => /\ Arena.curr \in SeqToSet(Chain)
       /\ \/ chunks[Arena.curr].next = NULL
          \/ /\ Arena.curr = Arena.head
             /\ \A c \in SeqToSet(Chain) \ {Arena.head} : chunks[c].offset = 0

\* After a reset of a grown chain, an allocation was served from head.
C14_Witness ==
    /\ handle = "live"
    /\ Arena.type = AR_DYNAMIC
    /\ Len(Chain) > 1
    /\ Arena.curr = Arena.head
    /\ lastOp = "aralloc"
    /\ chunks[Arena.head].offset > 0

\* C15: a live Fixed arena has exactly one region and curr equals head after
\* every call, and a call on it leaves the discipline and the region's
\* capacity as they were.
C15_FixedOneRegion ==
    [][/\ (handle' = "live" /\ Arena'.type = AR_FIXED)
          => /\ Len(chunks') = 1
             /\ ChainFrom(chunks', Arena'.head) = <<Arena'.head>>
             /\ Arena'.curr = Arena'.head
       /\ (handle = "live" /\ Arena.type = AR_FIXED /\ handle' = "live")
          => /\ Arena'.type = AR_FIXED
             /\ chunks'[Arena.head].capacity = chunks[Arena.head].capacity
             /\ chunks'[Arena.head].memory = chunks[Arena.head].memory]_vars

\* A Fixed arena in use refused an allocation.
C15_Witness ==
    /\ handle = "live"
    /\ Arena.type = AR_FIXED
    /\ lastOp = "aralloc"
    /\ ret = NULL
    /\ chunks[Arena.head].offset > 0

\* C16: in every state every region has 0 <= offset <= capacity.
C16_OffsetBound ==
    \A i \in 1..Len(chunks) :
        /\ 0 <= chunks[i].offset
        /\ chunks[i].offset <= chunks[i].capacity

\* A growth whose triggering allocation fills the new region exactly.
C16_Witness ==
    /\ Grew
    /\ lastArg = SIZE_MAX - 15
    /\ chunks[Arena.curr].offset = chunks[Arena.curr].capacity

\* C17 (as claimed): on a Fixed arena no aralloc call, whatever its size,
\* decreases the offset of the region.
C17_FixedOffsetMonotonic ==
    [][(LiveAlloc /\ Arena.type = AR_FIXED)
       => chunks'[Arena.head].offset >= chunks[Arena.head].offset]_vars

Max(a, b) == IF a >= b THEN a ELSE b

\* A step of aralloc that creates a region.
GrowStep == LiveAlloc /\ Len(chunks') > Len(chunks)

\* C18 (as claimed): the region a growth creates has capacity
\* max(2 * curr.capacity, aligned size rounded up to the page size), and every
\* region's capacity is a multiple of the page size.
C18_GrowthSizePaged ==
    [][/\ GrowStep
          => chunks'[Len(chunks')].capacity
                = Max(2 * chunks[Arena.curr].capacity,
                      PagesOf(AR_ALIGN_UP(lastArg')))
       /\ \A i \in 1..Len(chunks') : chunks'[i].capacity % PAGE_SIZE = 0]_vars

\* C18 (amended): the region a growth creates has capacity
\* max(2 * curr.capacity in size_t, aligned size), the aligned size not being
\* rounded to the page size; every region's capacity is a multiple of 16.
C18_GrowthSize ==
    [][/\ GrowStep
          => chunks'[Len(chunks')].capacity
                = Max(Wrap(2 * chunks[Arena.curr].capacity),
                      AR_ALIGN_UP(lastArg'))
       /\ \A i \in 1..Len(chunks') : chunks'[i].capacity % AR_ALIGN = 0]_vars

\* A growth for a request above twice the current capacity that is no
\* multiple of the page size.
C18_Witness ==
    /\ Grew
    /\ lastArg = 10000
    /\ chunks[Arena.curr].capacity = 10000

\* C19 (as claimed): a Dynamic aralloc that grows makes the chain one region
\* longer, the new region being its last one and curr, of capacity at least
\* the aligned size; it returns the new region's base and leaves its offset
\* at the aligned size.
C19_GrowthStep ==
    [][(GrowStep /\ Arena.type = AR_DYNAMIC)
       => LET new == Len(chunks')
              chain == ChainFrom(chunks', Arena'.head)
          IN  /\ new = Len(chunks) + 1
              /\ Len(chain) = Len(Chain) + 1
              /\ chain[Len(chain)] = new
              /\ Arena'.curr = new
              /\ chunks'[new].capacity >= AR_ALIGN_UP(lastArg')
              /\ ret' = chunks'[new].memory
              /\ chunks'[new].offset = AR_ALIGN_UP(lastArg')]_vars

ResetStep == lastOp' = "arreset" /\ ops' = ops + 1

\* C20: arreset on a live arena sets the offset of every region of the chain
\* to 0 and curr to head and changes nothing else (regions, their order, base
\* and capacity, discipline, descriptors, mappings, written bytes); the
\* aralloc after it, when it fits in head, returns head's base.
C20_ResetEffect ==
    [][/\ (ResetStep /\ handle = "live")
          => /\ chunks' = [i \in 1..Len(chunks) |->
                             IF i \in SeqToSet(Chain)
                             THEN [chunks[i] EXCEPT !.offset = 0]
                             ELSE chunks[i]]
             /\ Arena' = [Arena EXCEPT !.curr = Arena.head]
             /\ UNCHANGED <<handle, descs, maps, vmnext, written>>
             /\ log' = <<>>
       /\ (/\ LiveAlloc
           /\ lastOp = "arreset"
           /\ lastArg' <= SIZE_MAX - (AR_ALIGN - 1)
           /\ AR_ALIGN_UP(lastArg') <= chunks[Arena.head].capacity)
          => ret' = chunks[Arena.head].memory]_vars

\* A grown Dynamic arena holding data was reset.
C20_Witness ==
    /\ lastOp = "arreset"
    /\ handle = "live"
    /\ Len(Chain) > 1
    /\ written # {}
    /\ \A c \in SeqToSet(Chain) : chunks[c].offset = 0

\* C21 (as claimed): the byte ranges [ptr, ptr + size) handed out by the
\* successful aralloc calls since the last reset are pairwise disjoint, and
\* each lies inside one region [base, base + capacity) of the arena.
C21_NoOverlap ==
    handle = "live"
    => /\ \A i \in 1..Len(issued) : \A j \in 1..Len(issued) :
             (i # j) => \/ issued[i].ptr + issued[i].size <= issued[j].ptr
                        \/ issued[j].ptr + issued[j].size <= issued[i].ptr
       /\ \A i \in 1..Len(issued) :
             \E c \in SeqToSet(Chain) :
                /\ chunks[c].memory <= issued[i].ptr
                /\ issued[i].ptr + issued[i].size
                      <= chunks[c].memory + chunks[c].capacity

====
